---- MODULE Spec2Model ----
(***************************************************************************)
(* Model of the typed routing / validation layer of src/src/server/index.ts *)
(* (BaseRouter, AppServer, AppRouter, globalErrorHandler) and of the       *)
(* documentation entries it accumulates.                                   *)
(*                                                                         *)
(* JavaScript strings are TLA+ strings; where the code looks inside a      *)
(* string (a regular expression, String.includes) the operator Chars gives *)
(* the string's characters and the search is computed on them.             *)
(* A JavaScript object with ordered keys is a sequence of <<key, value>>   *)
(* pairs; a JSON body that is only read by field is a record.              *)
(***************************************************************************)
EXTENDS Integers, Sequences, FiniteSets, TLC

(* ------------------------------ bounds -------------------------------- *)
\* number of registration calls the program makes before listen():
\* get/post/put/patch/delete, router() and use()
MaxCalls == 5
\* number of routes bound on the server that serves requests
MaxServed == 2
\* number of termination signals the process receives
MaxSignals == 2
\* number of segments of a path template handed to createParamsObject
MaxSegments == 3
\* nesting depth of a schema handed to zodToSwagger
MaxDepth == 2

(* ------------------------------ strings ------------------------------- *)
\* The characters of the strings the code inspects character by character.
Chars(s) ==
    CASE s = "/profile"          -> <<"/","p","r","o","f","i","l","e">>
      [] s = "/profiles"         -> <<"/","p","r","o","f","i","l","e","s">>
      [] s = "/profile/:id"      -> <<"/","p","r","o","f","i","l","e","/",":","i","d">>
      [] s = "/items/:id"        -> <<"/","i","t","e","m","s","/",":","i","d">>
      [] s = "/items/:id?"       -> <<"/","i","t","e","m","s","/",":","i","d","?">>
      [] s = "boom"              -> <<"b","o","o","m">>
      [] s = "user not found"    -> <<"u","s","e","r"," ","n","o","t"," ","f","o","u","n","d">>
      [] s = "forbidden"         -> <<"f","o","r","b","i","d","d","e","n">>
      [] s = "profile not found" -> <<"p","r","o","f","i","l","e"," ","n","o","t"," ","f","o","u","n","d">>
      [] s = "email Not Found"   -> <<"e","m","a","i","l"," ","N","o","t"," ","F","o","u","n","d">>
      [] s = "not found"         -> <<"n","o","t"," ","f","o","u","n","d">>
      [] s = "Unexpected end of JSON input" ->
            <<"U","n","e","x","p","e","c","t","e","d"," ","e","n","d"," ","o","f"," ",
              "J","S","O","N"," ","i","n","p","u","t">>

\* \w of a JavaScript regular expression
WordChars ==
    {"a","b","c","d","e","f","g","h","i","j","k","l","m","n","o","p","q","r","s",
     "t","u","v","w","x","y","z","A","B","C","D","E","F","G","H","I","J","K","L",
     "M","N","O","P","Q","R","S","T","U","V","W","X","Y","Z","0","1","2","3","4",
     "5","6","7","8","9","_"}

\* String.prototype.includes: needle occurs as a contiguous run of hay
Includes(hay, needle) ==
    LET h == Chars(hay)
        n == Chars(needle)
    IN \E i \in 0..(Len(h) - Len(n)) : \A j \in 1..Len(n) : h[i + j] = n[j]

RECURSIVE Concat(_)
\* the string made of a sequence of characters
Concat(cs) ==
    IF cs = <<>> THEN "" ELSE Head(cs) \o Concat(Tail(cs))

RECURSIVE WordEnd(_, _)
\* index of the last character of the run of \w characters starting at i
WordEnd(cs, i) ==
    IF i + 1 <= Len(cs) /\ cs[i + 1] \in WordChars THEN WordEnd(cs, i + 1) ELSE i

RECURSIVE MatchParams(_, _)
\* path.match(/:(\w+)/g) followed by substring(1): the names, left to right
MatchParams(cs, i) ==
    IF i > Len(cs) THEN <<>>
    ELSE IF cs[i] = ":" /\ i + 1 <= Len(cs) /\ cs[i + 1] \in WordChars
         THEN LET j == WordEnd(cs, i + 1)
              IN <<Concat(SubSeq(cs, i + 1, j))>> \o MatchParams(cs, j + 1)
         ELSE MatchParams(cs, i + 1)

(* ------------------------------ objects ------------------------------- *)
\* keys of an ordered object, in insertion order
Keys(obj) ==
    [i \in 1..Len(obj) |-> obj[i][1]]

HasKey(obj, k) ==
    \E i \in 1..Len(obj) : obj[i][1] = k

\* the number a key stands for when it is an array index ('0', '1', ...), -1
\* for any other key
ArrayIndex(k) ==
    CASE k = "0" -> 0 [] k = "1" -> 1 [] k = "2" -> 2 [] k = "3" -> 3
      [] k = "4" -> 4 [] k = "5" -> 5 [] k = "6" -> 6 [] k = "7" -> 7
      [] k = "8" -> 8 [] k = "9" -> 9 [] OTHER -> -1

\* obj[k] = v with every new key put last
SetKeyAppends(obj, k, v) ==
    IF HasKey(obj, k)
    THEN [i \in 1..Len(obj) |-> IF obj[i][1] = k THEN <<k, v>> ELSE obj[i]]
    ELSE Append(obj, <<k, v>>)

\* obj[k] = v on an ordered object: an old key keeps its place; a new key goes
\* last, except that the keys that are array indices come first, in
\* ascending numeric order, in the order in which JavaScript lists own keys
SetKey(obj, k, v) ==
    IF HasKey(obj, k)
    THEN [i \in 1..Len(obj) |-> IF obj[i][1] = k THEN <<k, v>> ELSE obj[i]]
    ELSE IF ArrayIndex(k) < 0
         THEN Append(obj, <<k, v>>)
         ELSE LET n == Cardinality({i \in 1..Len(obj) :
                          /\ ArrayIndex(obj[i][1]) >= 0
                          /\ ArrayIndex(obj[i][1]) < ArrayIndex(k)})
              IN SubSeq(obj, 1, n) \o << <<k, v>> >> \o SubSeq(obj, n + 1, Len(obj))

\* a JavaScript value: its typeof tag and its text
Str(v) ==
    [type |-> "string", val |-> v]

Num(v) ==
    [type |-> "number", val |-> v]

Undefined ==
    [type |-> "undefined", val |-> ""]

\* obj[k], undefined when the key is missing
GetKey(obj, k) ==
    IF HasKey(obj, k)
    THEN (CHOOSE p \in {obj[i] : i \in 1..Len(obj)} : p[1] = k)[2]
    ELSE Undefined

\* !value for the values a request carries
Falsy(v) ==
    v.type = "undefined" \/ (v.type = "string" /\ v.val = "")

RECURSIVE createParamsFrom(_)
createParamsFrom(names) ==
    IF names = <<>> THEN <<>>
    ELSE SetKey(createParamsFrom(SubSeq(names, 1, Len(names) - 1)),
                names[Len(names)], Str(""))

\* createParamsObject(path): { name: '' } for every :name of the template
createParamsObject(path) ==
    createParamsFrom(MatchParams(Chars(path), 1))

(* ------------------------------ schemas ------------------------------- *)
\* no schema given (schemas?.params undefined)
NoSchema ==
    [kind |-> "none"]

ZString ==
    [kind |-> "string"]

ZNumber ==
    [kind |-> "number"]

\* z.array(inner)
ZArray(inner) ==
    [kind |-> "array", inner |-> inner]

\* z.boolean(): a schema that is none of ZodString, ZodNumber, ZodArray, ZodObject
ZBoolean ==
    [kind |-> "boolean"]

\* z.object(shape): shape is an ordered object key -> schema
ZObject(shape) ==
    [kind |-> "object", shape |-> shape]

\* the issue zod reports for one field of an object, <<>> when the field is accepted
FieldIssues(key, schema, value) ==
    IF schema.kind \in {"string", "number"} /\ value.type = schema.kind THEN <<>>
    ELSE IF value.type = "undefined"
         THEN <<[path |-> <<key>>, message |-> "Required"]>>
         ELSE <<[path |-> <<key>>,
                 message |-> "Expected " \o schema.kind \o ", received " \o value.type]>>

RECURSIVE ShapeIssues(_, _, _)
ShapeIssues(shape, obj, i) ==
    IF i > Len(shape) THEN <<>>
    ELSE FieldIssues(shape[i][1], shape[i][2], GetKey(obj, shape[i][1]))
         \o ShapeIssues(shape, obj, i + 1)

\* schema.parse(obj): the issues of the ZodError it throws, in the schema's
\* key order; <<>> when it returns
ParseIssues(schema, obj) ==
    ShapeIssues(schema.shape, obj, 1)

(* ------------------------------- errors ------------------------------- *)
\* error.stack
Stack(name, message) ==
    name \o ": " \o message \o "\n    at <anonymous>"

ZodError(issues) ==
    [name |-> "ZodError", issues |-> issues]

PlainError(message) ==
    [name |-> "Error", message |-> message, stack |-> Stack("Error", message)]

\* class HttpError extends Error
HttpError(statusCode, message) ==
    [name |-> "HttpError", statusCode |-> statusCode, message |-> message,
     stack |-> Stack("HttpError", message)]

\* what express.json() passes to next for a body that is not JSON
SyntaxError(message) ==
    [name |-> "SyntaxError", message |-> message, stack |-> Stack("SyntaxError", message)]

\* a thrown value that is not an Error (throw 'oops')
ThrownValue(text) ==
    [name |-> "", text |-> text]

\* error instanceof Error
InstanceOfError(e) ==
    e.name \in {"Error", "HttpError", "ZodError", "SyntaxError"}

RECURSIVE JoinIssues(_, _)
JoinIssues(issues, i) ==
    IF i > Len(issues) THEN ""
    ELSE (IF i > 1 THEN "; " ELSE "")
         \o issues[i].message \o " at '" \o issues[i].path[1] \o "'"
         \o JoinIssues(issues, i + 1)

\* fromZodError(error).message with every double quote replaced by a single one
ValidationMessage(issues) ==
    "Validation error: " \o JoinIssues(issues, 1)

\* what a step hands back: a response that was sent, or next(error)
Sent(status, body) ==
    [kind |-> "sent", status |-> status, body |-> body]

NextError(e) ==
    [kind |-> "next", error |-> e]

\* BaseRouter.handleError
handleError(error) ==
    IF error.name = "ZodError"
    THEN Sent(400, [success |-> FALSE,
                    message |-> ValidationMessage(error.issues),
                    details |-> [i \in 1..Len(error.issues) |->
                                   [path |-> error.issues[i].path,
                                    message |-> error.issues[i].message]]])
    ELSE IF InstanceOfError(error)
         THEN Sent(500, [success |-> FALSE,
                         message |-> "Internal server error",
                         traceStack |-> error.stack])
         ELSE NextError(error)

\* the status without the override for messages that contain 'not found'
GlobalStatusDeclaredOnly(error) ==
    IF error.name = "HttpError" THEN error.statusCode ELSE 500

\* the statusCode globalErrorHandler settles on
GlobalStatus(error) ==
    LET declared == IF error.name = "HttpError" THEN error.statusCode ELSE 500
    IN IF InstanceOfError(error) /\ Includes(error.message, "not found")
       THEN 404
       ELSE declared

GlobalMessage(error) ==
    IF InstanceOfError(error)
    THEN error.message
    ELSE "An unknown error occurred, " \o error.text

\* globalErrorHandler(error, request, response, next) under NODE_ENV = env;
\* a field whose value is undefined is not in the transmitted JSON
globalErrorHandler(error, env) ==
    LET data == [statusCode |-> GlobalStatus(error),
                 message |-> GlobalMessage(error),
                 success |-> FALSE,
                 data |-> "null"]
    IN Sent(GlobalStatus(error),
            IF env = "development" /\ InstanceOfError(error)
            THEN data @@ [traceStack |-> error.stack]
            ELSE data)

\* the envelope with the spread written first: { ...result, success, message }
SuccessBodyDefaultsWin(result) ==
    [success |-> TRUE, message |-> "Request successful"] @@ result

\* the object preRequest passes to res.send
SuccessBody(result) ==
    result @@ [success |-> TRUE, message |-> "Request successful"]

(* ------------------------- documentation shapes ----------------------- *)
\* a JavaScript object as a value
Obj(props) ==
    [type |-> "object", val |-> props]

RECURSIVE zodToObject(_)
\* zodToObject(schema): 'string', 'number', [inner], { key: ... } or 'unknown'
zodToObject(schema) ==
    CASE schema.kind = "string" -> Str("string")
      [] schema.kind = "number" -> Str("number")
      [] schema.kind = "array"  -> [type |-> "array", val |-> <<zodToObject(schema.inner)>>]
      [] schema.kind = "object" ->
            Obj([i \in 1..Len(schema.shape) |->
                   <<schema.shape[i][1], zodToObject(schema.shape[i][2])>>])
      [] OTHER -> Str("unknown")

\* a converter that knows the strings and numbers only
zodToSwaggerLeavesOnly(schema) ==
    CASE schema.kind = "string" -> [type |-> "string"]
      [] schema.kind = "number" -> [type |-> "number"]
      [] OTHER -> [type |-> "unknown"]

RECURSIVE zodToSwagger(_)
\* zodToSwagger(schema); properties is an ordered object key -> converted schema
zodToSwagger(schema) ==
    CASE schema.kind = "string" -> [type |-> "string"]
      [] schema.kind = "number" -> [type |-> "number"]
      [] schema.kind = "array"  ->
            [type |-> "array", items |-> zodToSwagger(schema.inner)]
      [] schema.kind = "object" ->
            [type |-> "object",
             properties |-> [i \in 1..Len(schema.shape) |->
                               <<schema.shape[i][1], zodToSwagger(schema.shape[i][2])>>]]
      [] OTHER -> [type |-> "unknown"]

\* r.schemas?.x ? zodToObject(r.schemas.x) : {}
ShapeOf(schema) ==
    IF schema.kind = "none" THEN Obj(<<>>) ELSE zodToObject(schema)

(* ------------------------------- routes ------------------------------- *)
\* A handler is known by what it is called and by its source text: `returns`
\* says what handler.toString().split('return')[1], with '}}' replaced and its
\* bare keys quoted, is: missing (no 'return' in the text), JSON text that
\* parses to `literal`, or text that does not parse.
Handler(id, returns, literal) ==
    [id |-> id, returns |-> returns, literal |-> literal]

NoDetail ==
    [given |-> FALSE]

Schemas(params, body, query, middleware, detail) ==
    [params |-> params, body |-> body, query |-> query,
     middleware |-> middleware, detail |-> detail]

Route(method, path, handler, schemas) ==
    [path |-> path, method |-> method, handler |-> handler, schemas |-> schemas]

paramsSchema ==
    ZObject(<< <<"id", ZString>> >>)

querySchema ==
    ZObject(<< <<"username", ZString>> >>)

bodySchema ==
    ZObject(<< <<"content", ZString>> >>)

\* a body schema with two required fields, to see the order of the issues
noteSchema ==
    ZObject(<< <<"content", ZString>>, <<"title", ZString>> >>)

profileDetail ==
    [given |-> TRUE, summary |-> "Get profile by id", tags |-> <<"profile">>,
     params |-> << [name |-> "id", in |-> "path", required |-> TRUE, type |-> "string"] >>]

DataProfile ==
    Obj(<< <<"data", Str("profile")>> >>)

\* the sub-routers of the program
RouterIds ==
    {"router"}

Prefixes ==
    {"/api", "/auth"}

\* the routes the program declares on the top-level server
AppRoutes ==
    { Route("get", "/profile", Handler("appGetProfile", "text", Obj(<<>>)),
            Schemas(NoSchema, NoSchema, querySchema, FALSE, NoDetail)),
      Route("post", "/profile", Handler("appPostProfile", "json", DataProfile),
            Schemas(NoSchema, NoSchema, NoSchema, FALSE, NoDetail)),
      Route("put", "/items/:id?", Handler("appPutItem", "json", DataProfile),
            Schemas(NoSchema, noteSchema, NoSchema, FALSE, NoDetail)) }

\* the routes the program declares on a sub-router
SubRoutes ==
    { Route("get", "/profile/:id", Handler("getProfileById", "json", DataProfile),
            Schemas(paramsSchema, NoSchema, NoSchema, TRUE, profileDetail)),
      Route("patch", "/items/:id?", Handler("patchItem", "text", Obj(<<>>)),
            Schemas(paramsSchema, NoSchema, querySchema, FALSE, NoDetail)),
      Route("delete", "/items/:id", Handler("deleteItem", "none", Obj(<<>>)),
            Schemas(NoSchema, NoSchema, NoSchema, FALSE, NoDetail)),
      Route("get", "/profile", Handler("getProfile", "text", Obj(<<>>)),
            Schemas(NoSchema, NoSchema, querySchema, FALSE, NoDetail)),
      Route("get", "/profile/:id", Handler("getProfileAgain", "text", Obj(<<>>)),
            Schemas(NoSchema, NoSchema, NoSchema, FALSE, NoDetail)) }

\* further routes, served by the request pipeline
MoreRoutes ==
    { Route("post", "/profiles", Handler("postProfiles", "text", Obj(<<>>)),
            Schemas(NoSchema, bodySchema, NoSchema, FALSE, NoDetail)),
      Route("get", "/items/:id", Handler("getItem", "text", Obj(<<>>)),
            Schemas(NoSchema, NoSchema, NoSchema, FALSE, NoDetail)) }

\* explicit documentation detail of a route that deletes a profile
removeDetail ==
    [given |-> TRUE, summary |-> "Delete profile by id", tags |-> <<"profile">>,
     params |-> << [name |-> "id", in |-> "path", required |-> TRUE, type |-> "string"] >>]

\* routes that declare explicit documentation detail and whose handlers return
\* no object literal: on the server the handler returns a string, on a
\* sub-router the handler has no 'return' at all
DetailedRoutes(target) ==
    IF target = "app"
    THEN { Route("delete", "/profile/:id", Handler("appDeleteProfile", "text", Obj(<<>>)),
                 Schemas(paramsSchema, NoSchema, NoSchema, FALSE, removeDetail)) }
    ELSE { Route("put", "/profile/:id", Handler("putProfile", "none", Obj(<<>>)),
                 Schemas(paramsSchema, NoSchema, NoSchema, FALSE, removeDetail)) }

Declarable(target) ==
    (IF target = "app" THEN AppRoutes ELSE SubRoutes) \cup DetailedRoutes(target)

(* ------------------------------- state -------------------------------- *)
VARIABLES
    nodeEnv,      \* process.env.NODE_ENV
    phase,        \* "setup", "listening", or "crashed" (a call threw)
    routes,       \* AppServer.routes
    declared,     \* every route ever declared on the server, in order
    sub,          \* AppRouter.routes of every sub-router
    instance,     \* the routes bound on every sub-router's express Router
    stack,        \* app._router.stack: the layers of the express application
    swaggerPath,  \* AppServer.swaggerPath
    docs,         \* the entry sequences handed to SwaggerDoc.apiDoc, in order
    calls,        \* number of registration calls made
    mounted,      \* every router() call that returned: its prefix and the routes
                  \* the sub-router held at the call
    inbound,      \* the request being processed, as it arrived
    req,          \* the request being processed, as the middleware left it
    pc,           \* "idle", "executing" (handler pending) or "done"
    ctx,          \* what the handler was invoked with, one entry per invocation
    settled,      \* how the handler settled: <<>>, or <<its result or its error>>
    sent,         \* the responses sent for the request, in order
    close,        \* whether listen() was given a teardown callback
    connections,  \* the Set<Socket> connections of listen()
    destroyed,    \* the connections on which destroy() was called
    opened,       \* the sockets the server emitted 'connection' for
    closed,       \* the sockets that emitted 'close'
    closing,      \* server.close() was called: no new connection is accepted
    closeCallbacks, \* number of callbacks waiting for the server's 'close' event
    timers,       \* number of pending forced-shutdown timers
    teardowns,    \* number of times the teardown callback was invoked
    exited,       \* <<>> while the process runs, <<code>> after process.exit(code)
    signals,      \* number of termination signals received
    input,        \* the argument handed to a pure function
    output        \* <<>>, or <<what the function returned>>

vars ==
    <<nodeEnv, phase, routes, declared, sub, instance, stack, swaggerPath, docs,
      calls, mounted, inbound, req, pc, ctx, settled, sent, close, connections,
      destroyed, opened, closed, closing, closeCallbacks, timers, teardowns,
      exited, signals,
      input, output>>

registry ==
    <<routes, declared, sub, instance, stack, swaggerPath, docs, calls, mounted>>

pipeline ==
    <<inbound, req, pc, ctx, settled, sent>>

shutdown ==
    <<close, connections, destroyed, opened, closed, closing, closeCallbacks,
      timers, teardowns,
      exited, signals>>

functions ==
    <<input, output>>

NoReq ==
    [method |-> "", url |-> ""]

\* no request in hand, the handler not invoked, nothing sent
Quiet ==
    /\ inbound = NoReq
    /\ req = NoReq
    /\ pc = "idle"
    /\ ctx = <<>>
    /\ settled = <<>>
    /\ sent = <<>>

\* a process that runs, with no connection and no signal received
Running ==
    /\ connections = {}
    /\ destroyed = {}
    /\ opened = {}
    /\ closed = {}
    /\ closing = FALSE
    /\ closeCallbacks = 0
    /\ timers = 0
    /\ teardowns = 0
    /\ exited = <<>>
    /\ signals = 0

\* no pure function being applied
NoCall ==
    /\ input = <<>>
    /\ output = <<>>

Init ==
    /\ nodeEnv \in {"development", "production"}
    /\ phase = "setup"
    /\ routes = <<>>
    /\ declared = <<>>
    /\ sub = [r \in RouterIds |-> <<>>]
    /\ instance = [r \in RouterIds |-> <<>>]
    /\ stack = <<>>
    /\ swaggerPath = <<>>
    /\ docs = <<>>
    /\ calls = 0
    /\ mounted = <<>>
    /\ Quiet
    /\ close = FALSE
    /\ Running
    /\ NoCall

(* ---------------------------- registration ---------------------------- *)
\* BaseRouter.addRoute on the server ("app") or on a sub-router
addRoute(target, method, path, handler, schemas) ==
    /\ phase = "setup"
    /\ calls < MaxCalls
    /\ calls' = calls + 1
    /\ IF target = "app"
       THEN /\ routes' = Append(routes, Route(method, path, handler, schemas))
            /\ declared' = Append(declared, Route(method, path, handler, schemas))
            /\ sub' = sub
       ELSE /\ sub' = [sub EXCEPT ![target] =
                          Append(@, Route(method, path, handler, schemas))]
            /\ UNCHANGED <<routes, declared>>
    /\ UNCHANGED <<nodeEnv, phase, instance, stack, swaggerPath, docs, mounted>>
    /\ UNCHANGED <<pipeline, shutdown, functions>>

Get(target, path, handler, schemas) ==
    addRoute(target, "get", path, handler, schemas)

Post(target, path, handler, schemas) ==
    addRoute(target, "post", path, handler, schemas)

Put(target, path, handler, schemas) ==
    addRoute(target, "put", path, handler, schemas)

Patch(target, path, handler, schemas) ==
    addRoute(target, "patch", path, handler, schemas)

Delete(target, path, handler, schemas) ==
    addRoute(target, "delete", path, handler, schemas)

\* createZodSchema(path): the object schema.parse(paramsObject) returns; every
\* value is '' and z.string().nullable() accepts it, so the keys are kept
createZodSchema(path) ==
    createParamsObject(path)

\* what createHandler closes over when a route is bound, and the route's own
\* middleware in front of it
Bind(r) ==
    [path |-> r.path, method |-> r.method, handler |-> r.handler,
     schemas |-> r.schemas, schemaObject |-> createZodSchema(r.path),
     middlewares |-> IF r.schemas.middleware THEN 1 ELSE 0]

\* AppRouter.register (on the routes rs) and the forEach of AppServer.listen
BindAll(rs) ==
    [i \in 1..Len(rs) |-> Bind(rs[i])]

\* the AppSwagger object with the path of the route alone
EntryWithoutPrefix(prefix, r, response) ==
    [path |-> r.path, method |-> r.method, detail |-> r.schemas.detail,
     body |-> ShapeOf(r.schemas.body), query |-> ShapeOf(r.schemas.query),
     params |-> ShapeOf(r.schemas.params), response |-> response]

\* the AppSwagger object built for route r under a prefix; response is what
\* the parse of the handler's text gave
Entry(prefix, r, response) ==
    [path |-> prefix \o r.path, method |-> r.method, detail |-> r.schemas.detail,
     body |-> ShapeOf(r.schemas.body), query |-> ShapeOf(r.schemas.query),
     params |-> ShapeOf(r.schemas.params), response |-> response]

\* AppServer.parseJson: JSON.parse, {} when it throws
parseJson(handler) ==
    IF handler.returns = "json" THEN handler.literal ELSE Obj(<<>>)

\* index of the first route whose handler text has no 'return': the
\* .replace on split('return')[1] throws a TypeError there; 0 when none
FirstWithoutReturn(rs) ==
    IF \E i \in 1..Len(rs) : rs[i].handler.returns = "none"
    THEN CHOOSE i \in 1..Len(rs) :
            /\ rs[i].handler.returns = "none"
            /\ \A j \in 1..(i - 1) : rs[j].handler.returns # "none"
    ELSE 0

\* index of the first route on which the forEach of listen() throws: no
\* 'return' (TypeError) or text JSON.parse rejects (SyntaxError); 0 when none
FirstThrowingInListen(rs) ==
    IF \E i \in 1..Len(rs) : rs[i].handler.returns # "json"
    THEN CHOOSE i \in 1..Len(rs) :
            /\ rs[i].handler.returns # "json"
            /\ \A j \in 1..(i - 1) : rs[j].handler.returns = "json"
    ELSE 0

RouterLayer(prefix, rid) ==
    [kind |-> "router", prefix |-> prefix, rid |-> rid]

RouteLayer(b) ==
    [kind |-> "route", route |-> b]

UseLayer(name) ==
    [kind |-> "use", name |-> name]

\* AppServer.router(path, router)
router(prefix, rid) ==
    LET rs == sub[rid]
        k == FirstWithoutReturn(rs)
        n == IF k = 0 THEN Len(rs) ELSE k - 1
        entries == [i \in 1..n |-> Entry(prefix, rs[i], parseJson(rs[i].handler))]
    IN /\ phase = "setup"
       /\ calls < MaxCalls
       /\ calls' = calls + 1
       /\ swaggerPath' = swaggerPath \o entries
       /\ IF k = 0
          THEN /\ instance' = [instance EXCEPT ![rid] = @ \o BindAll(rs)]
               /\ stack' = Append(stack, RouterLayer(prefix, rid))
               /\ routes' = <<>>
               /\ mounted' = Append(mounted, [prefix |-> prefix, routes |-> rs])
               /\ phase' = phase
          ELSE /\ phase' = "crashed"
               /\ UNCHANGED <<instance, stack, routes, mounted>>
       /\ UNCHANGED <<nodeEnv, declared, sub, docs>>
       /\ UNCHANGED <<pipeline, shutdown, functions>>

\* AppServer.use(SwaggerInitUi)
use(name) ==
    /\ phase = "setup"
    /\ calls < MaxCalls
    /\ calls' = calls + 1
    /\ stack' = Append(stack, UseLayer(name))
    /\ UNCHANGED <<nodeEnv, phase, routes, declared, sub, instance, swaggerPath, docs,
                   mounted>>
    /\ UNCHANGED <<pipeline, shutdown, functions>>

\* the layers of the stack that trigger the documentation in listen()
Triggers(layers) ==
    {i \in 1..Len(layers) : layers[i].kind = "use" /\ layers[i].name = "SwaggerInitUi"}

\* AppServer.listen(port): bind the server's own routes, assemble the
\* documentation once per trigger layer, clear both lists, install the
\* fallback and the global error handler
listen ==
    LET k == FirstThrowingInListen(routes)
        n == IF k = 0 THEN Len(routes) ELSE k - 1
        entries == [i \in 1..n |-> Entry("", routes[i], routes[i].handler.literal)]
        bound == stack \o [i \in 1..n |-> RouteLayer(Bind(routes[i]))]
        handed == swaggerPath \o entries
        t == Cardinality(Triggers(bound))
    IN /\ phase = "setup"
       /\ IF k = 0
          THEN /\ docs' = docs \o [i \in 1..t |-> handed]
               /\ swaggerPath' = <<>>
               /\ routes' = <<>>
               /\ stack' = bound \o [i \in 1..t |-> UseLayer("swaggerUi")]
                                 \o <<UseLayer("fallback"), UseLayer("globalErrorHandler")>>
               /\ phase' = "listening"
          ELSE /\ swaggerPath' = handed
               /\ stack' = bound
               /\ phase' = "crashed"
               /\ UNCHANGED <<docs, routes>>
       /\ UNCHANGED <<nodeEnv, declared, sub, instance, calls, mounted>>
       /\ UNCHANGED <<pipeline, shutdown, functions>>

(* ---------------------------- documentation --------------------------- *)
\* method.toUpperCase()
ToUpperCase(method) ==
    CASE method = "get" -> "GET"
      [] method = "post" -> "POST"
      [] method = "put" -> "PUT"
      [] method = "patch" -> "PATCH"
      [] method = "delete" -> "DELETE"

\* Object.entries(shape).map(([key, type]) => [key, { type }])
Properties(shape) ==
    [i \in 1..Len(shape.val) |-> <<shape.val[i][1], [type |-> shape.val[i][2]]>>]

\* a field of the optional detail that is given and truthy
HasDetail(e, field) ==
    e.detail.given /\ field \in DOMAIN e.detail

\* an array is truthy, empty or not
Truthy(array) ==
    TRUE

\* the descriptors made of the keys of a shape
Descriptors(shape, in, required) ==
    [i \in 1..Len(shape.val) |->
        [name |-> shape.val[i][1], in |-> in, required |-> required,
         type |-> shape.val[i][2]]]

\* const parameters = detail?.params ? ... : Object.entries(params).map(...)
\*                    || Object.entries(query).map(...) || []
Parameters(e) ==
    IF HasDetail(e, "params") THEN e.detail.params
    ELSE IF Truthy(Descriptors(e.params, "path", TRUE))
         THEN Descriptors(e.params, "path", TRUE)
         ELSE IF Truthy(Descriptors(e.query, "query", FALSE))
              THEN Descriptors(e.query, "query", FALSE)
              ELSE <<>>

\* the operation object apiDoc writes for an entry; requestBody is <<>> when
\* it is undefined
Operation(e) ==
    [summary |-> IF HasDetail(e, "summary") THEN e.detail.summary
                 ELSE ToUpperCase(e.method) \o " " \o e.path,
     tags |-> IF HasDetail(e, "tags") THEN e.detail.tags ELSE <<"default">>,
     requestBody |-> IF HasDetail(e, "body") THEN <<e.detail.body>>
                     ELSE IF Len(e.body.val) > 0
                          THEN <<[required |-> TRUE, properties |-> Properties(e.body)]>>
                          ELSE <<>>,
     parameters |-> Parameters(e),
     responses |-> IF HasDetail(e, "response") THEN e.detail.response
                   ELSE Properties(e.response)]

\* if (!paths[path]) paths[path] = {}; paths[path][method] = operation
PutOperation(paths, e) ==
    LET old == IF e.path \in DOMAIN paths THEN paths[e.path] ELSE <<>>
    IN [p \in DOMAIN paths \cup {e.path} |->
          IF p = e.path
          THEN [m \in DOMAIN old \cup {e.method} |->
                  IF m = e.method THEN Operation(e) ELSE old[m]]
          ELSE paths[p]]

RECURSIVE apiDocFrom(_, _, _)
apiDocFrom(entries, i, paths) ==
    IF i > Len(entries) THEN paths
    ELSE apiDocFrom(entries, i + 1, PutOperation(paths, entries[i]))

\* new SwaggerDoc().apiDoc(swaggerPath): the paths of the definition
apiDoc(entries) ==
    apiDocFrom(entries, 1, <<>>)

(* ------------------------------ requests ------------------------------ *)
RECURSIVE Flat(_, _)
\* the routes a request can reach, in the order express tries them: each has
\* its full path (mount prefix and route path) and what was bound
Flat(layers, i) ==
    IF i > Len(layers) THEN <<>>
    ELSE (CASE layers[i].kind = "route" ->
                 <<[full |-> layers[i].route.path, b |-> layers[i].route]>>
            [] layers[i].kind = "router" ->
                 [j \in 1..Len(instance[layers[i].rid]) |->
                    [full |-> layers[i].prefix \o instance[layers[i].rid][j].path,
                     b |-> instance[layers[i].rid][j]]]
            [] OTHER -> <<>>)
         \o Flat(layers, i + 1)

Bound ==
    Flat(stack, 1)

RECURSIVE ParamTokens(_, _)
\* the :name tokens of a template as express reads them: a '?' after the name
\* makes the segment optional, and its parameter undefined when it is left out
ParamTokens(cs, i) ==
    IF i > Len(cs) THEN <<>>
    ELSE IF cs[i] = ":" /\ i + 1 <= Len(cs) /\ cs[i + 1] \in WordChars
         THEN LET j == WordEnd(cs, i + 1)
              IN <<[name |-> Concat(SubSeq(cs, i + 1, j)),
                    optional |-> j + 1 <= Len(cs) /\ cs[j + 1] = "?"]>>
                 \o ParamTokens(cs, j + 1)
         ELSE ParamTokens(cs, i + 1)

RECURSIVE ParamBindings(_, _)
\* the req.params express can produce for a request matching the template:
\* a value for every parameter, except that an optional one may be undefined
ParamBindings(tokens, i) ==
    IF i = 0 THEN {<<>>}
    ELSE LET vals == IF tokens[i].optional THEN {Str("42"), Undefined} ELSE {Str("42")}
         IN {Append(o, <<tokens[i].name, v>>) :
                o \in ParamBindings(tokens, i - 1), v \in vals}

\* const transaction = 'x-transaction-id'
transaction ==
    "x-transaction-id"

\* the text uuid() returns
uuid ==
    "0192a1b2-c3d4-7e5f-8a6b-7c8d9e0f1a2b"

\* the headers a request arrives with: none, the correlation header with an
\* empty value, the correlation header with a value
Headers ==
    { <<>>,
      << <<transaction, Str("")>> >>,
      << <<transaction, Str("abc-123")>> >> }

\* the middleware that writes the header whether it is there or not
AssignTransactionAlways(rq) ==
    [rq EXCEPT !.headers = SetKey(@, transaction, Str("default-" \o uuid))]

\* the middleware of the constructor:
\* if (!req.headers[transaction]) req.headers[transaction] = `default-${uuid()}`
AssignTransaction(rq) ==
    IF Falsy(GetKey(rq.headers, transaction))
    THEN [rq EXCEPT !.headers = SetKey(@, transaction, Str("default-" \o uuid))]
    ELSE rq

Bodies ==
    { <<>>,
      << <<"content", Str("hello")>> >>,
      << <<"content", Num("7")>> >>,
      << <<"content", Str("hello")>>, <<"title", Str("note")>> >> }

Queries ==
    { <<>>, << <<"username", Str("bob")>> >> }

\* the requests that match the bound route b reached as `full`
RequestsFor(full, b) ==
    { [method |-> b.method, url |-> full, params |-> p, body |-> bd, query |-> q,
       headers |-> h, malformed |-> FALSE] :
        h \in Headers,
        p \in ParamBindings(ParamTokens(Chars(b.path), 1),
                             Len(ParamTokens(Chars(b.path), 1))),
        bd \in IF b.schemas.body.kind = "none" THEN {<<>>} ELSE Bodies,
        q \in IF b.schemas.query.kind = "none" THEN {<<>>} ELSE Queries }

\* the first bound route of the path of rq, whatever its method
MatchingAnyMethod(rq) ==
    LET hits == {i \in 1..Len(Bound) : Bound[i].full = rq.url}
    IN Bound[CHOOSE i \in hits : \A j \in hits : i <= j].b

\* the first bound route express finds for the method and path of rq
Matching(rq) ==
    LET hits == {i \in 1..Len(Bound) :
                    Bound[i].full = rq.url /\ Bound[i].b.method = rq.method}
    IN Bound[CHOOSE i \in hits : \A j \in hits : i <= j].b

\* whether a layer of the application answers the request, in place of
\* passing it on: a route or a mounted router with a route of that path and
\* method, the documentation UI under /api-docs, the fallback
Responds(layer, rq) ==
    CASE layer.kind = "route" ->
            layer.route.path = rq.url /\ layer.route.method = rq.method
      [] layer.kind = "router" ->
            \E j \in 1..Len(instance[layer.rid]) :
                /\ layer.prefix \o instance[layer.rid][j].path = rq.url
                /\ instance[layer.rid][j].method = rq.method
      [] OTHER ->
            \/ layer.name = "fallback"
            \/ layer.name = "swaggerUi" /\ rq.url = "/api-docs"

\* the first layer of the stack that answers the request; 0 when none does
Responder(rq) ==
    LET hits == {i \in 1..Len(stack) : Responds(stack[i], rq)}
    IN IF hits = {} THEN 0 ELSE CHOOSE i \in hits : \A j \in hits : i <= j

\* what a schema.parse throws: <<>> or <<the ZodError>>
Thrown(schema, value) ==
    IF schema.kind = "none" \/ ParseIssues(schema, value) = <<>>
    THEN <<>>
    ELSE <<ZodError(ParseIssues(schema, value))>>

\* validateRequest without its line for the body schema
validateRequestSkipsBody(rq, schemas) ==
    IF Thrown(schemas.params, rq.params) # <<>> THEN Thrown(schemas.params, rq.params)
    ELSE Thrown(schemas.query, rq.query)

\* BaseRouter.validateRequest: params, then body, then query; <<>> or <<error>>
validateRequest(rq, schemas) ==
    IF Thrown(schemas.params, rq.params) # <<>> THEN Thrown(schemas.params, rq.params)
    ELSE IF Thrown(schemas.body, rq.body) # <<>> THEN Thrown(schemas.body, rq.body)
    ELSE Thrown(schemas.query, rq.query)

\* BaseRouter.validateParams: the first key of schemaObject with a falsy
\* req.params[key] throws a plain Error
validateParams(rq, schemaObject) ==
    LET missing == {i \in 1..Len(schemaObject) :
                       Falsy(GetKey(rq.params, schemaObject[i][1]))}
    IN IF missing = {} THEN <<>>
       ELSE LET i == CHOOSE i \in missing : \A j \in missing : i <= j
            IN <<PlainError("Parameter '" \o schemaObject[i][1] \o "' is required")>>

\* createHandler with validateParams called before validateRequest
createHandlerParamsFirst(rq, b) ==
    IF Len(b.schemaObject) > 0 /\ validateParams(rq, b.schemaObject) # <<>>
    THEN validateParams(rq, b.schemaObject)
    ELSE validateRequest(rq, b.schemas)

\* the try block of createHandler, up to the call of preRequest: <<>> when the
\* handler is to be invoked, <<error>> when a check threw
createHandler(rq, b) ==
    IF validateRequest(rq, b.schemas) # <<>> THEN validateRequest(rq, b.schemas)
    ELSE IF Len(b.schemaObject) > 0 THEN validateParams(rq, b.schemaObject)
    ELSE <<>>

\* the context preRequest builds for the handler
Context(rq) ==
    [params |-> rq.params, body |-> rq.body, query |-> rq.query]

\* A request arrives for a bound route: the wrapper made by createHandler
\* runs; a check that throws is answered by handleError, otherwise preRequest
\* invokes the handler, which is then pending.
Dispatch(rq) ==
    LET b == Matching(rq)
        thrown == createHandler(rq, b)
    IN /\ phase = "listening"
       /\ pc \in {"idle", "done"}
       /\ ~rq.malformed
       /\ Responder(rq) > 0
       /\ stack[Responder(rq)].kind # "use"
       /\ inbound' = rq
       /\ req' = AssignTransaction(rq)
       /\ settled' = <<>>
       /\ IF thrown = <<>>
          THEN /\ ctx' = <<Context(rq)>>
               /\ sent' = <<>>
               /\ pc' = "executing"
          ELSE /\ ctx' = <<>>
               /\ sent' = <<handleError(thrown[1])>>
               /\ pc' = "done"
       /\ UNCHANGED <<nodeEnv, phase>>
       /\ UNCHANGED <<registry, shutdown, functions>>

\* the methods of enum HttpMethod
Methods ==
    {"get", "post", "put", "patch", "delete"}

\* requests for the bound paths and for paths no route has, with any method,
\* with a body that parses or not
Strays ==
    { [method |-> m, url |-> u, params |-> <<>>, body |-> <<>>, query |-> <<>>,
       headers |-> <<>>, malformed |-> bad] :
        m \in Methods,
        u \in {Bound[i].full : i \in 1..Len(Bound)} \cup {"/nowhere", "/metrics", "/api-docs"},
        bad \in BOOLEAN }

\* the endpoint metricsMiddleware serves by itself
metricsMiddleware(rq) ==
    rq.method = "get" /\ rq.url = "/metrics"

\* the fallback of listen(): res.status(404).json({message, path: req.originalUrl})
Fallback(rq) ==
    Sent(404, [message |-> "Unknown URL", path |-> rq.url])

\* A request that no route wrapper answers goes down the application's
\* layers: express.json() passes a body that does not parse to the error
\* handler, metricsMiddleware serves its endpoint, the next middleware assigns
\* the correlation header, and the first layer that answers is the
\* documentation UI or the fallback.
Unrouted(rq) ==
    /\ phase = "listening"
    /\ pc \in {"idle", "done"}
    /\ \E i \in 1..Len(stack) : stack[i] = UseLayer("globalErrorHandler")
    /\ inbound' = rq
    /\ IF rq.malformed
       THEN /\ req' = rq
            /\ sent' = <<globalErrorHandler(SyntaxError("Unexpected end of JSON input"),
                                             nodeEnv)>>
       ELSE IF metricsMiddleware(rq)
            THEN /\ req' = rq
                 /\ sent' = <<Sent(200, [metrics |-> "text/plain"])>>
            ELSE /\ Responder(rq) > 0
                 /\ stack[Responder(rq)].kind = "use"
                 /\ req' = AssignTransaction(rq)
                 /\ sent' = <<IF stack[Responder(rq)].name = "fallback"
                               THEN Fallback(rq)
                               ELSE Sent(200, [html |-> "swagger-ui"])>>
    /\ ctx' = <<>>
    /\ settled' = <<>>
    /\ pc' = "done"
    /\ UNCHANGED <<nodeEnv, phase>>
    /\ UNCHANGED <<registry, shutdown, functions>>

\* what the handlers of the program resolve with
HandlerResults ==
    << [data |-> "profile"],
       <<>>,
       [message |-> "created", data |-> "profile"],
       [success |-> FALSE, statusCode |-> 404, message |-> "no such profile"] >>

\* what the handlers of the program throw or reject with
HandlerErrors ==
    << PlainError("boom"),
       PlainError("user not found"),
       HttpError(403, "forbidden"),
       HttpError(400, "profile not found"),
       HttpError(409, "email Not Found"),
       ThrownValue("oops") >>

\* preRequest with the status taken from the result: res.status(result.statusCode)
HandlerResolvesWithStatus(result) ==
    /\ pc = "executing"
    /\ settled' = <<[kind |-> "resolved", value |-> result]>>
    /\ sent' = Append(sent, Sent(IF "statusCode" \in DOMAIN result
                                  THEN result.statusCode ELSE 200,
                                  SuccessBody(result)))
    /\ pc' = "done"
    /\ UNCHANGED <<nodeEnv, phase, inbound, req, ctx>>
    /\ UNCHANGED <<registry, shutdown, functions>>

\* preRequest without catchAsync: the rejection of the handler reaches nobody
HandlerThrowsUnanswered(error) ==
    /\ pc = "executing"
    /\ settled' = <<[kind |-> "threw", value |-> error]>>
    /\ pc' = "done"
    /\ UNCHANGED <<nodeEnv, phase, inbound, req, ctx, sent>>
    /\ UNCHANGED <<registry, shutdown, functions>>

\* the handler resolves: preRequest sends the envelope (status 200)
HandlerResolves(result) ==
    /\ pc = "executing"
    /\ settled' = <<[kind |-> "resolved", value |-> result]>>
    /\ sent' = Append(sent, Sent(200, SuccessBody(result)))
    /\ pc' = "done"
    /\ UNCHANGED <<nodeEnv, phase, inbound, req, ctx>>
    /\ UNCHANGED <<registry, shutdown, functions>>

\* the handler throws or rejects: catchAsync passes the error to next, and
\* express hands it to the globalErrorHandler that listen() installed
HandlerThrows(error) ==
    /\ pc = "executing"
    /\ \E i \in 1..Len(stack) : stack[i] = UseLayer("globalErrorHandler")
    /\ settled' = <<[kind |-> "threw", value |-> error]>>
    /\ sent' = Append(sent, globalErrorHandler(error, nodeEnv))
    /\ pc' = "done"
    /\ UNCHANGED <<nodeEnv, phase, inbound, req, ctx>>
    /\ UNCHANGED <<registry, shutdown, functions>>

(* ---------------------------- specification --------------------------- *)
\* The program: route declarations, mounts and use() calls in any order, then
\* listen(). Registration ends when listen() returns or a call throws.
Next ==
    \/ \E t \in {"app"} \cup RouterIds : \E r \in Declarable(t) :
          \/ r.method = "get" /\ Get(t, r.path, r.handler, r.schemas)
          \/ r.method = "post" /\ Post(t, r.path, r.handler, r.schemas)
          \/ r.method = "put" /\ Put(t, r.path, r.handler, r.schemas)
          \/ r.method = "patch" /\ Patch(t, r.path, r.handler, r.schemas)
          \/ r.method = "delete" /\ Delete(t, r.path, r.handler, r.schemas)
    \/ \E p \in Prefixes : \E rid \in RouterIds : router(p, rid)
    \/ use("SwaggerInitUi")
    \/ listen

Spec ==
    Init /\ [][Next]_vars

\* the routes served in the request pipeline
ServedRoutes ==
    AppRoutes \cup SubRoutes \cup MoreRoutes

\* a server whose fallback was installed before the sub-router was mounted
ListeningFallbackFirst(rs, prefix) ==
    /\ nodeEnv \in {"development", "production"}
    /\ phase = "listening"
    /\ routes = <<>>
    /\ declared = <<>>
    /\ sub = [r \in RouterIds |-> rs]
    /\ instance = [r \in RouterIds |-> BindAll(rs)]
    /\ stack = <<UseLayer("fallback"), RouterLayer(prefix, "router"),
                 UseLayer("globalErrorHandler")>>
    /\ swaggerPath = <<>>
    /\ docs = <<>>
    /\ calls = Len(rs) + 1
    /\ mounted = <<[prefix |-> prefix, routes |-> rs]>>
    /\ Quiet
    /\ Running
    /\ NoCall

\* A server that is listening: the routes rs were declared on the sub-router,
\* the sub-router was mounted under the prefix and listen() was called.
Listening(rs, prefix) ==
    /\ nodeEnv \in {"development", "production"}
    /\ phase = "listening"
    /\ routes = <<>>
    /\ declared = <<>>
    /\ sub = [r \in RouterIds |-> rs]
    /\ instance = [r \in RouterIds |-> BindAll(rs)]
    /\ stack = <<RouterLayer(prefix, "router"),
                 UseLayer("fallback"), UseLayer("globalErrorHandler")>>
    /\ swaggerPath = <<>>
    /\ docs = <<>>
    /\ calls = Len(rs) + 1
    /\ mounted = <<[prefix |-> prefix, routes |-> rs]>>
    /\ Quiet
    /\ Running
    /\ NoCall

ServingInit ==
    \E k \in 1..MaxServed : \E rs \in [1..k -> ServedRoutes] :
        /\ FirstWithoutReturn(rs) = 0
        /\ Listening(rs, "/api")
        /\ close = FALSE

\* requests served one after the other by a listening server
ServingNext ==
    \/ \E i \in 1..Len(Bound) : \E rq \in RequestsFor(Bound[i].full, Bound[i].b) :
          Dispatch(rq)
    \/ \E rq \in Strays : Unrouted(rq)
    \/ \E i \in 1..Len(HandlerResults) : HandlerResolves(HandlerResults[i])
    \/ \E i \in 1..Len(HandlerErrors) : HandlerThrows(HandlerErrors[i])

Serving ==
    ServingInit /\ [][ServingNext]_vars

(* ------------------------------ shutdown ------------------------------ *)
\* the sockets that connect to the server
Sockets ==
    {"s1", "s2", "s3"}

\* const signals = ['SIGINT', 'SIGTERM']
Signals ==
    {"SIGINT", "SIGTERM"}

\* the 'close' listener of a connection without the delete
ConnectionCloseKeeps(c) ==
    /\ exited = <<>>
    /\ c \in connections
    /\ closed' = closed \cup {c}
    /\ UNCHANGED <<close, connections, destroyed, opened, closing, closeCallbacks,
                   timers, teardowns, exited, signals>>
    /\ UNCHANGED <<nodeEnv, phase, registry, pipeline, functions>>

\* server.on('connection', ...): a server that is not closing accepts a
\* connection, a new Socket each time, which is added to the set
Connection(c) ==
    /\ phase = "listening"
    /\ exited = <<>>
    /\ ~closing
    /\ c \notin opened
    /\ connections' = connections \cup {c}
    /\ opened' = opened \cup {c}
    /\ UNCHANGED <<close, destroyed, closed, closing, closeCallbacks, timers, teardowns,
                   exited, signals>>
    /\ UNCHANGED <<nodeEnv, phase, registry, pipeline, functions>>

\* connection.on('close', ...): the connection ends and leaves the set
ConnectionClose(c) ==
    /\ exited = <<>>
    /\ c \in connections
    /\ connections' = connections \ {c}
    /\ closed' = closed \cup {c}
    /\ UNCHANGED <<close, destroyed, opened, closing, closeCallbacks, timers, teardowns,
                   exited, signals>>
    /\ UNCHANGED <<nodeEnv, phase, registry, pipeline, functions>>

\* the signal handler without the setTimeout of the forced shutdown
SignalWithoutTimer(signal) ==
    /\ phase = "listening"
    /\ exited = <<>>
    /\ signals < MaxSignals
    /\ signals' = signals + 1
    /\ closing' = TRUE
    /\ closeCallbacks' = closeCallbacks + 1
    /\ UNCHANGED <<close, connections, destroyed, opened, closed, timers, teardowns,
                   exited>>
    /\ UNCHANGED <<nodeEnv, phase, registry, pipeline, functions>>

\* process.on(signal, ...): server.close(callback) stops the server from
\* accepting and registers the callback for the 'close' event, and a
\* forced-shutdown timer is started
Signal(signal) ==
    /\ phase = "listening"
    /\ exited = <<>>
    /\ signals < MaxSignals
    /\ signals' = signals + 1
    /\ closing' = TRUE
    /\ closeCallbacks' = closeCallbacks + 1
    /\ timers' = timers + 1
    /\ UNCHANGED <<close, connections, destroyed, opened, closed, teardowns, exited>>
    /\ UNCHANGED <<nodeEnv, phase, registry, pipeline, functions>>

\* the callback of server.close without the call of close
ServerClosedSkipsTeardown ==
    /\ exited = <<>>
    /\ closing
    /\ closeCallbacks > 0
    /\ connections = {}
    /\ closeCallbacks' = closeCallbacks - 1
    /\ exited' = <<0>>
    /\ UNCHANGED <<close, connections, destroyed, opened, closed, closing, timers,
                   teardowns, signals>>
    /\ UNCHANGED <<nodeEnv, phase, registry, pipeline, functions>>

\* the server emits 'close' once it is closing and no connection is left; the
\* first registered callback runs: close?.() and process.exit(0), which ends
\* the process before any other callback
ServerClosed ==
    /\ exited = <<>>
    /\ closing
    /\ closeCallbacks > 0
    /\ connections = {}
    /\ closeCallbacks' = closeCallbacks - 1
    /\ teardowns' = IF close THEN teardowns + 1 ELSE teardowns
    /\ exited' = <<0>>
    /\ UNCHANGED <<close, connections, destroyed, opened, closed, closing, timers,
                   signals>>
    /\ UNCHANGED <<nodeEnv, phase, registry, pipeline, functions>>

\* the timer callback without the forEach that destroys the connections
ForceShutdownSkipsDestroy ==
    /\ exited = <<>>
    /\ timers > 0
    /\ connections # {}
    /\ timers' = timers - 1
    /\ teardowns' = IF close THEN teardowns + 1 ELSE teardowns
    /\ exited' = <<1>>
    /\ UNCHANGED <<close, connections, destroyed, opened, closed, closing,
                   closeCallbacks, signals>>
    /\ UNCHANGED <<nodeEnv, phase, registry, pipeline, functions>>

\* a forced-shutdown timer fires, ten seconds after its signal; with no
\* connection left the 'close' event, emitted on the next tick, came first.
\* Every connection of the set is destroyed, then close?.() and process.exit(1)
ForceShutdown ==
    /\ exited = <<>>
    /\ timers > 0
    /\ connections # {}
    /\ timers' = timers - 1
    /\ destroyed' = destroyed \cup connections
    /\ teardowns' = IF close THEN teardowns + 1 ELSE teardowns
    /\ exited' = <<1>>
    /\ UNCHANGED <<close, connections, opened, closed, closing, closeCallbacks,
                   signals>>
    /\ UNCHANGED <<nodeEnv, phase, registry, pipeline, functions>>

\* A server that listen(port, close) started, with or without the callback
ShutdownInit ==
    /\ \E r \in ServedRoutes :
          /\ r.handler.returns # "none"
          /\ Listening(<<r>>, "/api")
    /\ close \in BOOLEAN

\* connections come and go, signals arrive, the server closes or the timer fires
ShutdownNext ==
    \/ \E c \in Sockets : Connection(c)
    \/ \E c \in Sockets : ConnectionClose(c)
    \/ \E signal \in Signals : Signal(signal)
    \/ ServerClosed
    \/ ForceShutdown

Shutdown ==
    ShutdownInit /\ [][ShutdownNext]_vars

\* The event loop of the process: a callback that is due runs. The 'close'
\* event of a closing server without connections is emitted on the next tick,
\* and a timer that was set fires when its ten seconds have passed. Nothing
\* obliges a client to connect, to disconnect or a signal to arrive.
ShutdownFair ==
    Shutdown /\ WF_vars(ServerClosed) /\ WF_vars(ForceShutdown)

(* ------------------------------ functions ----------------------------- *)
\* a segment of a path template: its characters, and the parameter it names
Segment(text, names) ==
    [text |-> text, names |-> names]

Segments ==
    { Segment(<<"/","u","s","e","r","s">>, <<>>),
      Segment(<<"/",":","i","d">>, <<"id">>),
      Segment(<<"/",":","n","a","m","e">>, <<"name">>),
      Segment(<<"/",":","i","d","?">>, <<"id">>),
      Segment(<<"/",":","2">>, <<"2">>),
      Segment(<<"/",":","1">>, <<"1">>) }

\* the path templates of up to MaxSegments segments
Templates ==
    UNION { [1..n -> Segments] : n \in 0..MaxSegments }

RECURSIVE TemplateChars(_)
\* the characters of a template
TemplateChars(segments) ==
    IF segments = <<>> THEN <<>>
    ELSE segments[1].text \o TemplateChars(Tail(segments))

RECURSIVE SchemasOfDepth(_)
\* the schemas nested up to a depth: strings, numbers, booleans, arrays and
\* objects of none, one or two fields
SchemasOfDepth(d) ==
    IF d = 0 THEN {ZString, ZNumber, ZBoolean}
    ELSE LET inner == SchemasOfDepth(d - 1)
         IN inner
            \cup {ZArray(x) : x \in inner}
            \cup {ZObject(<<>>)}
            \cup {ZObject(<< <<"a", x>> >>) : x \in inner}
            \cup {ZObject(<< <<"a", x>>, <<"b", y>> >>) :
                     x \in SchemasOfDepth(0), y \in inner}

\* createParamsObject(path) is called with a template
ExtractParams ==
    /\ input.kind = "template"
    /\ output = <<>>
    /\ output' = <<createParamsFrom(MatchParams(TemplateChars(input.segments), 1))>>
    /\ UNCHANGED <<nodeEnv, phase, registry, pipeline, shutdown, input>>

\* zodToSwagger(schema) is called with a schema
ConvertSchema ==
    /\ input.kind = "schema"
    /\ output = <<>>
    /\ output' = <<zodToSwagger(input.schema)>>
    /\ UNCHANGED <<nodeEnv, phase, registry, pipeline, shutdown, input>>

\* a function about to be called with an argument
FunctionsInit ==
    /\ nodeEnv = "development"
    /\ phase = "setup"
    /\ routes = <<>>
    /\ declared = <<>>
    /\ sub = [r \in RouterIds |-> <<>>]
    /\ instance = [r \in RouterIds |-> <<>>]
    /\ stack = <<>>
    /\ swaggerPath = <<>>
    /\ docs = <<>>
    /\ calls = 0
    /\ mounted = <<>>
    /\ Quiet
    /\ close = FALSE
    /\ Running
    /\ input \in {[kind |-> "template", segments |-> t] : t \in Templates}
                 \cup {[kind |-> "schema", schema |-> z] : z \in SchemasOfDepth(MaxDepth)}
    /\ output = <<>>

FunctionsNext ==
    \/ ExtractParams
    \/ ConvertSchema

Functions ==
    FunctionsInit /\ [][FunctionsNext]_vars

(* ------------------------------- claims ------------------------------- *)
\* the request in hand is one that a route wrapper received
Routed ==
    /\ req # NoReq
    /\ ~req.malformed
    /\ Responder(req) > 0
    /\ stack[Responder(req)].kind # "use"

\* the route that answers the request in hand
Target ==
    Matching(req)

\* the {path, message} list a 400 response carries for a list of issues
Details(issues) ==
    [i \in 1..Len(issues) |-> [path |-> issues[i].path, message |-> issues[i].message]]

\* the issue lists of the explicit schemas of the route that reject the request
Rejections ==
    { is \in { IF Target.schemas.params.kind = "none" THEN <<>>
               ELSE ParseIssues(Target.schemas.params, req.params),
               IF Target.schemas.body.kind = "none" THEN <<>>
               ELSE ParseIssues(Target.schemas.body, req.body),
               IF Target.schemas.query.kind = "none" THEN <<>>
               ELSE ParseIssues(Target.schemas.query, req.query) } : is # <<>> }

\* the names of the dynamic segments of the route to which the request binds
\* no value
Unbound ==
    { Target.schemaObject[i][1] : i \in
        { j \in 1..Len(Target.schemaObject) :
            GetKey(req.params, Target.schemaObject[j][1]).type = "undefined" } }

\* C1: when a params, body or query schema of the route rejects the request,
\* the handler is not invoked and the one response is 400 with success false,
\* a message, and one {path, message} detail per issue of the rejecting
\* schema, in the order of its issues.
C1_SchemaRejectionIs400 ==
    (Routed /\ Rejections # {}) =>
        /\ pc = "done"
        /\ ctx = <<>>
        /\ settled = <<>>
        /\ Len(sent) = 1
        /\ sent[1].status = 400
        /\ sent[1].body.success = FALSE
        /\ "message" \in DOMAIN sent[1].body
        /\ \E is \in Rejections : sent[1].body.details = Details(is)

\* a body schema requiring content and the body {} : the detail names content
C1_Witness ==
    /\ Routed
    /\ Target.schemas.body = bodySchema
    /\ req.body = <<>>
    /\ Len(sent) = 1
    /\ sent[1].status = 400
    /\ sent[1].body.details = <<[path |-> <<"content">>, message |-> "Required"]>>

\* C2: on a route with a dynamic segment and no explicit params schema, a
\* request that binds the segment reaches the handler and succeeds when it
\* resolves, and a request that binds no value to it is answered 400 with a
\* detail whose path names the segment.
C2_MissingParamIs400 ==
    (/\ Routed
     /\ pc = "done"
     /\ Target.schemas.params.kind = "none"
     /\ Len(Target.schemaObject) > 0
     /\ Rejections = {}) =>
        IF Unbound = {}
        THEN /\ Len(ctx) = 1
             /\ settled[1].kind = "resolved" => (Len(sent) = 1 /\ sent[1].status = 200)
        ELSE /\ Len(sent) = 1
             /\ sent[1].status = 400
             /\ "details" \in DOMAIN sent[1].body
             /\ \E i \in 1..Len(sent[1].body.details) :
                    sent[1].body.details[i].path[1] \in Unbound

\* C3 as stated: the params check, explicit or derived from the template,
\* comes before the body and query schemas, so a request that fails the
\* params check is never answered with the issues of the body or query schema.
C3_ParamsCheckFirst ==
    (/\ Routed
     /\ pc = "done"
     /\ \/ Target.schemas.params.kind # "none"
              /\ ParseIssues(Target.schemas.params, req.params) # <<>>
        \/ Unbound # {}) =>
        ~ \E part \in {"body", "query"} :
              /\ Target.schemas[part].kind # "none"
              /\ ParseIssues(Target.schemas[part], req[part]) # <<>>
              /\ Len(sent) = 1
              /\ sent[1].status = 400
              /\ sent[1].body.details = Details(ParseIssues(Target.schemas[part], req[part]))

\* the four checks of the wrapper in the order the code applies them:
\* explicit params schema, body schema, query schema, then the required
\* parameters of the template; each is <<>> or <<the error it throws>>
ChecksInOrder ==
    << IF Target.schemas.params.kind = "none"
          \/ ParseIssues(Target.schemas.params, req.params) = <<>>
       THEN <<>> ELSE <<ZodError(ParseIssues(Target.schemas.params, req.params))>>,
       IF Target.schemas.body.kind = "none"
          \/ ParseIssues(Target.schemas.body, req.body) = <<>>
       THEN <<>> ELSE <<ZodError(ParseIssues(Target.schemas.body, req.body))>>,
       IF Target.schemas.query.kind = "none"
          \/ ParseIssues(Target.schemas.query, req.query) = <<>>
       THEN <<>> ELSE <<ZodError(ParseIssues(Target.schemas.query, req.query))>>,
       IF Unbound = {} THEN <<>>
       ELSE <<PlainError("Parameter '"
                \o Target.schemaObject[CHOOSE i \in 1..Len(Target.schemaObject) :
                       /\ Target.schemaObject[i][1] \in Unbound
                       /\ \A j \in 1..(i - 1) : Target.schemaObject[j][1] \notin Unbound][1]
                \o "' is required")>> >>

\* C3 (amended): the checks are applied in the order explicit params schema,
\* body schema, query schema, required parameters of the template; the first
\* check that rejects decides the response and the handler is not invoked;
\* when none rejects the handler is invoked.
C3_ChecksInCodeOrder ==
    (Routed) =>
        LET failing == {i \in 1..4 : ChecksInOrder[i] # <<>>}
        IN IF failing = {}
           THEN Len(ctx) = 1
           ELSE LET first == CHOOSE i \in failing : \A j \in failing : i <= j
                IN /\ ctx = <<>>
                   /\ sent = <<handleError(ChecksInOrder[first][1])>>

\* the body schema and the required parameter both reject: the body's issues
\* are what the response reports
C3_Witness ==
    /\ Routed
    /\ Target.schemas.params.kind = "none"
    /\ Unbound # {}
    /\ ParseIssues(Target.schemas.body, req.body) # <<>>
    /\ Len(sent) = 1
    /\ sent[1].status = 400
    /\ sent[1].body.details = Details(ParseIssues(Target.schemas.body, req.body))

\* the handler of the request in hand resolved
Resolved ==
    settled # <<>> /\ settled[1].kind = "resolved"

\* the handler of the request in hand threw or rejected
Threw ==
    settled # <<>> /\ settled[1].kind = "threw"

\* the defaults of the success envelope
EnvelopeDefaults ==
    [success |-> TRUE, message |-> "Request successful"]

\* C4: when the request passes validation and the handler resolves with R,
\* the handler was invoked exactly once, with the params, body and query of
\* the request, and the body sent is {success: true, message: "Request
\* successful"} with every field of R laid over it.
C4_EnvelopeOverlay ==
    Resolved =>
        LET R == settled[1].value
        IN /\ Len(ctx) = 1
           /\ ctx[1].params = req.params
           /\ ctx[1].body = req.body
           /\ ctx[1].query = req.query
           /\ Len(sent) = 1
           /\ DOMAIN sent[1].body = DOMAIN R \cup {"success", "message"}
           /\ \A f \in DOMAIN sent[1].body :
                 sent[1].body[f] = IF f \in DOMAIN R THEN R[f] ELSE EnvelopeDefaults[f]

\* the handler returned {data: d} for a body the schema accepts
C4_Witness ==
    /\ Resolved
    /\ Target.schemas.body = bodySchema
    /\ req.body = << <<"content", Str("hello")>> >>
    /\ settled[1].value = [data |-> "profile"]
    /\ sent = <<Sent(200, [success |-> TRUE, message |-> "Request successful",
                           data |-> "profile"])>>

\* the messages thrown by the handlers that contain "not found"
NotFoundMessages ==
    {"user not found", "profile not found"}

\* C5: when the handler throws an error that is neither a validation error
\* nor a declared HTTP error, and whose message does not contain "not found",
\* the response is 500 with success false and the fixed message "Internal
\* server error", not the message of the error.
C5_GenericMessage ==
    (/\ Threw
     /\ settled[1].value.name \in {"Error", ""}
     /\ settled[1].value.name = "Error" => settled[1].value.message \notin NotFoundMessages) =>
        /\ Len(sent) = 1
        /\ sent[1].status = 500
        /\ sent[1].body.success = FALSE
        /\ sent[1].body.message = "Internal server error"

\* C6: when the handler throws a declared HTTP error with status S and
\* message M, the response has status S and message M, except that the status
\* is 404 when M contains "not found"; M is the message in both cases.
C6_DeclaredStatus ==
    (Threw /\ settled[1].value.name = "HttpError") =>
        /\ Len(sent) = 1
        /\ sent[1].status = IF settled[1].value.message \in NotFoundMessages
                            THEN 404
                            ELSE settled[1].value.statusCode
        /\ sent[1].body.message = settled[1].value.message

\* a declared error 400 "profile not found" is answered 404 with its message
C6_Witness ==
    /\ Threw
    /\ settled[1].value = HttpError(400, "profile not found")
    /\ Len(sent) = 1
    /\ sent[1].status = 404
    /\ sent[1].body.message = "profile not found"

\* C7: in production mode no response carries a stack trace, whichever path
\* produced it.
C7_NoStackInProduction ==
    nodeEnv = "production" =>
        \A i \in 1..Len(sent) : "traceStack" \notin DOMAIN sent[i].body

\* the <<path, method>> of every route the HTTP server has bound, in the order
\* of binding
BoundKeys ==
    [i \in 1..Len(Bound) |-> <<Bound[i].full, Bound[i].b.method>>]

EntryKeys(entries) ==
    [i \in 1..Len(entries) |-> <<entries[i].path, entries[i].method>>]

\* C8: when listen() has returned, every route that was declared directly on
\* the server is bound on the HTTP server, and a request for its method and
\* path reaches its handler, whatever was mounted and whenever.
C8_DeclaredRoutesBound ==
    phase = "listening" =>
        \A i \in 1..Len(declared) :
            /\ \E j \in 1..Len(Bound) :
                  /\ Bound[j].full = declared[i].path
                  /\ Bound[j].b.method = declared[i].method
            /\ \A rq \in RequestsFor(declared[i].path, Bind(declared[i])) :
                  Matching(rq).handler = declared[i].handler

\* C9: a router(prefix, subRouter) call that returns leaves subRouter.routes
\* empty, so a later mount of the same sub-router adds no documentation entry
\* and binds no handler again.
C9_MountDrainsSubRouter ==
    [][\A p \in Prefixes : \A rid \in RouterIds :
          (router(p, rid) /\ phase' = "setup") =>
              /\ sub'[rid] = <<>>
              /\ (\E i \in 1..Len(stack) : stack[i].kind = "router" /\ stack[i].rid = rid)
                    => (swaggerPath' = swaggerPath /\ instance' = instance)]_vars

\* C10: the entry sequence listen() hands to the Documentation Assembler has
\* exactly one entry for every route bound on the HTTP server, none for a
\* route that is not bound, in the order of binding.
C10_OneEntryPerBoundRoute ==
    phase = "listening" =>
        \A i \in 1..Len(docs) : EntryKeys(docs[i]) = BoundKeys

\* the operation the assembled document d holds under a path and a method
Documented(d, full, method) ==
    IF full \in DOMAIN apiDoc(docs[d]) /\ method \in DOMAIN apiDoc(docs[d])[full]
    THEN <<apiDoc(docs[d])[full][method]>>
    ELSE <<>>

\* the handler a request for a path and a method is dispatched to
Served(full, method) ==
    Matching([method |-> method, url |-> full]).handler

\* the mounted routes reached as `full` with a method, as <<mount, index>>
Mounts(full, method) ==
    { km \in { <<k, j>> : k \in 1..Len(mounted), j \in 1..MaxCalls } :
        /\ km[2] <= Len(mounted[km[1]].routes)
        /\ mounted[km[1]].prefix \o mounted[km[1]].routes[km[2]].path = full
        /\ mounted[km[1]].routes[km[2]].method = method }

\* the handler of the first of them: the earliest mount, and in it the
\* earliest declaration
FirstMounted(full, method) ==
    LET first == CHOOSE a \in Mounts(full, method) :
                    \A b \in Mounts(full, method) :
                        a[1] < b[1] \/ (a[1] = b[1] /\ a[2] <= b[2])
    IN mounted[first[1]].routes[first[2]].handler

\* the entries of document d with a path and a method
EntriesAt(d, full, method) ==
    {i \in 1..Len(docs[d]) : docs[d][i].path = full /\ docs[d][i].method = method}

C12_InferenceNeverRaises ==
    /\ phase # "crashed"
    /\ phase = "listening" =>
          \A k \in 1..Len(mounted) : \A j \in 1..Len(mounted[k].routes) :
              LET r == mounted[k].routes[j]
                  full == mounted[k].prefix \o r.path
              IN /\ \E i \in 1..Len(Bound) :
                      Bound[i].full = full /\ Bound[i].b.handler = r.handler
                 /\ r.handler.returns # "json" =>
                      \A d \in 1..Len(docs) : \E i \in EntriesAt(d, full, r.method) :
                          docs[d][i].response = Obj(<<>>)

\* C13: after a termination signal, an exit with status 0 happens only with
\* no connection open and without any connection having been destroyed; an
\* exit with a non-zero status happens only with connections still open when
\* the grace timer fires, and then every connection of the set was destroyed.
C13_ExitStatus ==
    /\ exited # <<>> => signals > 0
    /\ exited = <<>> => destroyed = {}
    /\ exited = <<0>> => (connections = {} /\ destroyed = {})
    /\ (exited # <<>> /\ exited # <<0>>) =>
          (exited[1] # 0 /\ connections # {} /\ destroyed = connections)

\* two connections were still open when the timer fired: both destroyed, exit 1
C13_Witness ==
    /\ exited = <<1>>
    /\ Cardinality(connections) = 2
    /\ destroyed = connections

\* C14: when listen() was given a teardown callback, the callback has been
\* invoked exactly once when the process has exited, by the graceful path or
\* by the forced one, and never more than once, whatever the order of the
\* signals, the connection closes and the timers.
C14_TeardownOnce ==
    close =>
        /\ teardowns <= 1
        /\ exited # <<>> => teardowns = 1

\* a second signal arrived before the server closed: two callbacks were
\* registered, one ran, and the callback was invoked once
C14_Witness ==
    /\ close
    /\ signals = 2
    /\ exited = <<0>>
    /\ closeCallbacks = 1
    /\ teardowns = 1

\* the request in hand matches no bound path and method
Unmatched ==
    \A i \in 1..Len(Bound) :
        ~(Bound[i].full = inbound.url /\ Bound[i].b.method = inbound.method)

\* the response of the fallback to the request in hand
UnknownUrl ==
    [kind |-> "sent", status |-> 404,
     body |-> [message |-> "Unknown URL", path |-> inbound.url]]

OwnRoutes ==
    {Bound[i].b : i \in {k \in 1..Len(Bound) :
        Bound[k].full = req.url /\ Bound[k].b.method = req.method}}

\* the bound routes with the path of the request in hand and another method
SiblingRoutes ==
    {Bound[i].b : i \in {k \in 1..Len(Bound) :
        Bound[k].full = req.url /\ Bound[k].b.method # req.method}}

\* the issue lists with which the schemas of a route reject the request
RejectionsOf(b) ==
    { is \in { IF b.schemas.params.kind = "none" THEN <<>>
               ELSE ParseIssues(b.schemas.params, req.params),
               IF b.schemas.body.kind = "none" THEN <<>>
               ELSE ParseIssues(b.schemas.body, req.body),
               IF b.schemas.query.kind = "none" THEN <<>>
               ELSE ParseIssues(b.schemas.query, req.query) } : is # <<>> }

\* C16: a request is validated against the schemas of the routes of its own
\* path and method only: a 400 it gets reports a rejection by one of them,
\* and when none of them rejects, the handler is invoked, whatever the
\* schemas of the routes that share the path under another method.
C16_OwnSchemasOnly ==
    Routed =>
        /\ \A i \in 1..Len(sent) : sent[i].status = 400 =>
              \E b \in OwnRoutes : \E is \in RejectionsOf(b) :
                  sent[i].body.details = Details(is)
        /\ (\A b \in OwnRoutes : RejectionsOf(b) = {} /\ Len(b.schemaObject) = 0) =>
              (Len(ctx) = 1 /\ \A i \in 1..Len(sent) : sent[i].status # 400)

\* POST /api/profile, which has no schema, reaches its handler with a query
\* that the query schema of GET /api/profile rejects
C16_Witness ==
    /\ Routed
    /\ req.method = "post"
    /\ req.url = "/api/profile"
    /\ \E b \in SiblingRoutes :
          /\ b.method = "get"
          /\ b.schemas.query = querySchema
          /\ ParseIssues(b.schemas.query, req.query) # <<>>
    /\ Len(ctx) = 1

\* name, in and required of a list of parameter descriptors
Described(parameters) ==
    [i \in 1..Len(parameters) |->
        [name |-> parameters[i].name, in |-> parameters[i].in,
         required |-> parameters[i].required]]

\* the descriptors C17 gives a route: the detail's parameters, else the names
\* of the path template as required path parameters, else the keys of the
\* query schema as optional query parameters
ClaimedParameters(r) ==
    LET names == MatchParams(Chars(r.path), 1)
        query == ShapeOf(r.schemas.query).val
    IN IF r.schemas.detail.given /\ "params" \in DOMAIN r.schemas.detail
       THEN Described(r.schemas.detail.params)
       ELSE IF Len(names) > 0
            THEN [i \in 1..Len(names) |->
                    [name |-> names[i], in |-> "path", required |-> TRUE]]
            ELSE [i \in 1..Len(query) |->
                    [name |-> query[i][1], in |-> "query", required |-> FALSE]]

\* C17: in every assembled document, the operation of a mounted route that is
\* the only one of its path and method has the parameter descriptors of the
\* route: explicit detail parameters, else the path-template names (in path,
\* required), else the query-schema keys (in query, not required).
C17_ParameterDescriptors ==
    \A d \in 1..Len(docs) : \A k \in 1..Len(mounted) :
        \A j \in 1..Len(mounted[k].routes) :
            LET r == mounted[k].routes[j]
                full == mounted[k].prefix \o r.path
            IN (\A i \in EntriesAt(d, full, r.method) :
                    docs[d][i] = Entry(mounted[k].prefix, r, parseJson(r.handler))) =>
                  (/\ Documented(d, full, r.method) # <<>>
                   /\ Described(Documented(d, full, r.method)[1].parameters)
                        = ClaimedParameters(r))

\* C18 as stated: the request a route wrapper receives carries the
\* correlation header; when it arrived with the header the value is the one
\* it arrived with, and when it arrived without, the value is a generated one.
C18_HeaderKeptOrGenerated ==
    Routed =>
        /\ HasKey(req.headers, transaction)
        /\ IF HasKey(inbound.headers, transaction)
           THEN GetKey(req.headers, transaction) = GetKey(inbound.headers, transaction)
           ELSE GetKey(req.headers, transaction) = Str("default-" \o uuid)

\* C18 (amended): the request a route wrapper receives carries the
\* correlation header with a non-empty value; when it arrived with a
\* non-empty value the value is unchanged, and when it arrived without the
\* header or with an empty value, the value is a generated one.
C18_NonEmptyHeaderKept ==
    Routed =>
        /\ HasKey(req.headers, transaction)
        /\ GetKey(req.headers, transaction).val # ""
        /\ IF /\ HasKey(inbound.headers, transaction)
              /\ GetKey(inbound.headers, transaction).val # ""
           THEN GetKey(req.headers, transaction) = GetKey(inbound.headers, transaction)
           ELSE GetKey(req.headers, transaction) = Str("default-" \o uuid)

\* a request that arrived with the value abc-123 reached its handler with it
C18_Witness ==
    /\ Routed
    /\ Len(ctx) = 1
    /\ GetKey(inbound.headers, transaction) = Str("abc-123")
    /\ GetKey(req.headers, transaction) = Str("abc-123")

RECURSIVE TokenNames(_)
\* the parameter tokens of a template, left to right
TokenNames(segments) ==
    IF segments = <<>> THEN <<>>
    ELSE segments[1].names \o TokenNames(Tail(segments))

RECURSIVE FirstAppearances(_)
\* a sequence of names without the repetitions of a name already seen
FirstAppearances(names) ==
    IF names = <<>> THEN <<>>
    ELSE LET before == FirstAppearances(SubSeq(names, 1, Len(names) - 1))
         IN IF \E i \in 1..Len(before) : before[i] = names[Len(names)]
            THEN before
            ELSE Append(before, names[Len(names)])

\* the names that are array indices, in ascending numeric order
IndexNamesAscending(names) ==
    LET idx == {names[i] : i \in {j \in 1..Len(names) : ArrayIndex(names[j]) >= 0}}
    IN [i \in 1..Cardinality(idx) |->
          CHOOSE n \in idx :
              Cardinality({m \in idx : ArrayIndex(m) < ArrayIndex(n)}) = i - 1]

\* the names that are not array indices, in the order given
OtherNames(names) ==
    LET NotIndex(n) == ArrayIndex(n) < 0
    IN SelectSeq(names, NotIndex)

\* C19 as stated: for a template with k distinct parameter tokens,
\* createParamsObject yields exactly the k names, each once, in left-to-right
\* order of first appearance; none for a template without a dynamic segment.
C19_NamesInTemplateOrder ==
    (input # <<>> /\ input.kind = "template" /\ output # <<>>) =>
        Keys(output[1]) = FirstAppearances(TokenNames(input.segments))

\* C19 (amended): createParamsObject yields exactly the k distinct names, each
\* once; the names that are array indices come first, in ascending numeric
\* order, and the other names follow in left-to-right order of first
\* appearance; a template without a dynamic segment yields no name.
C19_NamesInKeyOrder ==
    (input # <<>> /\ input.kind = "template" /\ output # <<>>) =>
        LET names == FirstAppearances(TokenNames(input.segments))
        IN /\ Len(Keys(output[1])) = Len(names)
           /\ {Keys(output[1])[i] : i \in 1..Len(output[1])}
                = {names[i] : i \in 1..Len(names)}
           /\ Keys(output[1]) = IndexNamesAscending(names) \o OtherNames(names)
           /\ \A i \in 1..Len(output[1]) : output[1][i][2] = Str("")

\* '/:id/:name/:id' yields id, then name
C19_Witness ==
    /\ input # <<>>
    /\ input.kind = "template"
    /\ TokenNames(input.segments) = <<"id", "name", "id">>
    /\ output # <<>>
    /\ Keys(output[1]) = <<"id", "name">>

RECURSIVE Converted(_, _)
\* out is the documentation shape of the schema: {type: "string"} and {type:
\* "number"} for a string and a number, {type: "array", items} for an array,
\* {type: "object", properties} with one property per field for an object,
\* {type: "unknown"} for anything else
Converted(schema, out) ==
    CASE schema.kind \in {"string", "number"} ->
            out = [type |-> schema.kind]
      [] schema.kind = "array" ->
            /\ DOMAIN out = {"type", "items"}
            /\ out.type = "array"
            /\ Converted(schema.inner, out.items)
      [] schema.kind = "object" ->
            /\ DOMAIN out = {"type", "properties"}
            /\ out.type = "object"
            /\ Len(out.properties) = Len(schema.shape)
            /\ \A i \in 1..Len(schema.shape) :
                  /\ out.properties[i][1] = schema.shape[i][1]
                  /\ Converted(schema.shape[i][2], out.properties[i][2])
      [] OTHER ->
            out = [type |-> "unknown"]

\* C20: zodToSwagger returns, for every schema of finite nesting, the shape
\* of the schema: objects as {type: "object", properties}, arrays as {type:
\* "array", items}, strings and numbers as {type}, and any other kind of
\* schema, at any depth, as {type: "unknown"}.
C20_ConverterTotal ==
    (input # <<>> /\ input.kind = "schema") =>
        /\ ENABLED ConvertSchema \/ output # <<>>
        /\ output # <<>> => Converted(input.schema, output[1])

\* an object holding an array of a schema of another kind
C20_Witness ==
    /\ input # <<>>
    /\ input.kind = "schema"
    /\ input.schema = ZObject(<< <<"a", ZArray(ZBoolean)>> >>)
    /\ output = <<[type |-> "object",
                   properties |-> << <<"a", [type |-> "array",
                                             items |-> [type |-> "unknown"]]>> >>]>>

\* C21: a validation error and a declared HTTP error raised while a request
\* is processed are answered by the wrapper of the route (handleError) and are
\* never handed to the global error handler of the server.
C21_ErrorsRecoveredAtGate ==
    /\ (Routed /\ pc = "done" /\ ctx = <<>>) =>
          /\ createHandler(req, Target) # <<>>
          /\ sent = <<handleError(createHandler(req, Target)[1])>>
    /\ (Routed /\ Threw /\ settled[1].value.name = "HttpError") =>
          /\ sent = <<handleError(settled[1].value)>>
          /\ sent # <<globalErrorHandler(settled[1].value, nodeEnv)>>

\* C22: when listen() has returned, the entry sequence was handed to the
\* Documentation Assembler exactly once if the stack holds a documentation
\* trigger, however many times it was added with use(), and not at all if it
\* holds none; the entry sequence and the server's route list are empty.
C22_DocumentedOnce ==
    phase = "listening" =>
        /\ Len(docs) = IF Triggers(stack) # {} THEN 1 ELSE 0
        /\ swaggerPath = <<>>
        /\ routes = <<>>

\* C23: after listen(), whatever the order of the 'connection' and 'close'
\* events, the connection set holds exactly the sockets that were opened and
\* have not closed; the forced shutdown destroys exactly those, and no socket
\* that had already closed.
C23_SetTracksOpenConnections ==
    /\ connections = opened \ closed
    /\ closed \subseteq opened
    /\ destroyed \cap closed = {}
    /\ (exited # <<>> /\ exited[1] = 1) => destroyed = opened \ closed

\* the forced path ran with one socket already closed and another still open
C23_Witness ==
    /\ exited = <<1>>
    /\ closed # {}
    /\ destroyed # {}
    /\ destroyed = opened \ closed

\* the routes on which the call that ended the registration can have thrown:
\* the first of the server's routes listen() cannot parse, the first of a
\* sub-router's routes without a 'return'
Offenders ==
    (IF FirstThrowingInListen(routes) = 0 THEN {}
     ELSE {routes[FirstThrowingInListen(routes)]})
    \cup {sub[rid][FirstWithoutReturn(sub[rid])] :
             rid \in {x \in RouterIds : FirstWithoutReturn(sub[x]) # 0}}

\* C24: router() and listen() read the handler's source text only for a route
\* without explicit documentation detail: a call never throws on a route that
\* declares detail, whatever the body of its handler.
C24_DetailNeedsNoSourceText ==
    phase = "crashed" => \E r \in Offenders : ~r.schemas.detail.given

\* C25: once a termination signal was received after listen(), the process
\* eventually exits, on the graceful path when the connections close or on the
\* forced path when the grace timer fires; it never waits forever.
C25_SignalLeadsToExit ==
    (signals > 0) ~> (exited # <<>>)

\* both signals were received and a client kept its connection open: the first
\* timer ended the process while the second was still pending
C25_Witness ==
    /\ signals = MaxSignals
    /\ connections # {}
    /\ exited = <<1>>
    /\ timers > 0

\* C26: a request dispatched to a bound route gets exactly one response on
\* every path of the pipeline. While the handler is pending nothing was sent;
\* once the processing is over one response was sent: by the gate, the handler
\* not invoked, when a check failed; the envelope when the handler resolved;
\* an error response when it threw. No path sends two and none sends nothing.
C26_ExactlyOneResponse ==
    /\ Len(sent) <= 1
    /\ pc = "executing" => (Len(ctx) = 1 /\ settled = <<>> /\ sent = <<>>)
    /\ (Routed /\ pc = "done") =>
          /\ Len(sent) = 1
          /\ \/ /\ ctx = <<>>
                /\ settled = <<>>
                /\ createHandler(req, Target) # <<>>
                /\ sent[1].status \in {400, 500}
             \/ /\ Len(ctx) = 1
                /\ Resolved
                /\ sent[1] = Sent(200, SuccessBody(settled[1].value))
             \/ /\ Len(ctx) = 1
                /\ Threw
                /\ sent[1].status >= 400
                /\ sent[1].body.success = FALSE

\* the handler threw a plain error and the one response is the error response
C26_Witness ==
    /\ Routed
    /\ pc = "done"
    /\ Threw
    /\ settled[1].value = PlainError("boom")
    /\ Len(sent) = 1
    /\ sent[1].status = 500

\* C27: when the request passes validation and the handler resolves, the
\* status of the response is 200 whatever the result holds: a statusCode or
\* success: false in the result is found in the body only.
C27_ResolvedIs200 ==
    Resolved =>
        LET R == settled[1].value
        IN /\ Len(sent) = 1
           /\ sent[1].status = 200
           /\ "statusCode" \in DOMAIN R => sent[1].body.statusCode = R.statusCode
           /\ "success" \in DOMAIN R => sent[1].body.success = R.success

\* the handler returned {success: false, statusCode: 404, ...}: sent with 200
C27_Witness ==
    /\ Resolved
    /\ settled[1].value =
          [success |-> FALSE, statusCode |-> 404, message |-> "no such profile"]
    /\ sent[1].status = 200
    /\ sent[1].body.statusCode = 404
    /\ sent[1].body.success = FALSE

====
